---- MODULE Spec2Model ----
(***************************************************************************)
(* FalconEye flight diagnostic: the engine simulator (engine.py) and the   *)
(* feature pipeline, summariser and data-source selection (app.py).        *)
(*                                                                         *)
(* Floating-point quantities are fixed-point integers:                     *)
(*   time, dt          quarter seconds      (dt = 4 is 1.0 s)              *)
(*   throttle          hundredths           (100 is 1.0)                   *)
(*   rpm               1 rpm                                               *)
(*   engine_temp       tenths of a degree   (9800 is 980.0)                *)
(*   fuel_flow         tenths                                              *)
(*   vibration         thousandths          (30 is 0.03)                   *)
(*   anomaly_score     thousandths                                         *)
(*   lag factors       ten-thousandths                                     *)
(***************************************************************************)
EXTENDS Integers, Sequences, FiniteSets, TLC

\* ------------------------------------------------------------------ bounds

\* Operations on the simulator in one behaviour of SpecEngine.
MaxOps == 3
\* Longest throttle profile handed to run_profile.
MaxProfile == 2
\* Integer seeds 0 .. NumSeeds-1 (and as many entropy values for rng_seed=None).
NumSeeds == 2

\* ------------------------------------------------------------- input sets

Seeds == 0 .. (NumSeeds - 1)
\* rng_seed: int | None
None == 0 - 1
\* throttle commands: below 0, inside [0,1], above 1
ThrottleValues == {0 - 50, 40, 150}
\* dt > 0: 0.25 s and 10000 s
GoodDt == {1, 40000}
\* dt <= 0
BadDt == {0, 0 - 4}
\* (ambient_temp_c, idle_rpm, max_rpm): the defaults and one override
Calibrations == { [ambient_temp_c |-> 220, idle_rpm |-> 1100, max_rpm |-> 15500],
                  [ambient_temp_c |-> 150, idle_rpm |-> 1000, max_rpm |-> 16000] }

RECURSIVE SeqsUpTo(_, _)
SeqsUpTo(S, n) ==
    IF n = 0 THEN { <<>> }
    ELSE LET shorter == SeqsUpTo(S, n - 1)
         IN  shorter \cup { Append(q, x) : q \in { r \in shorter : Len(r) = n - 1 }, x \in S }

Profiles == SeqsUpTo(ThrottleValues, MaxProfile)

\* ------------------------------------------------------------ arithmetic

Max(a, b) == IF a >= b THEN a ELSE b
Min(a, b) == IF a <= b THEN a ELSE b
Abs(a) == IF a < 0 THEN 0 - a ELSE a

ClampLowOnly(value, low, high) == Max(low, value)
_clamp(value, low, high) == Max(low, Min(high, value))

\* 1 - exp(-dt / tau), tau in tenths of a second, result in ten-thousandths
Alpha(dt, tau) ==
    CASE dt = 1 -> (CASE tau = 18 -> 1297 [] tau = 90 -> 274
                      [] tau = 22 -> 1074 [] tau = 35 -> 689)
      [] dt = 2 -> (CASE tau = 18 -> 2425 [] tau = 90 -> 540
                      [] tau = 22 -> 2033 [] tau = 35 -> 1331)
      [] dt = 4 -> (CASE tau = 18 -> 4262 [] tau = 90 -> 1052
                      [] tau = 22 -> 3653 [] tau = 35 -> 2485)
      [] dt = 40000 -> 10000

\* sqrt(dt) in thousandths
SqrtDt(dt) ==
    CASE dt = 1 -> 500 [] dt = 2 -> 707 [] dt = 4 -> 1000 [] dt = 40000 -> 100000

\* --------------------------------------------------------- random source
\* The generator is a full-period linear congruential generator: its state
\* is its position in the stream fixed by the seed.

RngMod == 64 * 64
NextRng(r) == (1229 * r + 1) % RngMod
\* the standard-normal variate read off generator state r, in whole sigmas
ZTable == << 0 - 30, 0 - 6, 0 - 2, 0 - 1, 0, 1, 2, 6, 30 >>
ZOf(r) == ZTable[((NextRng(r) \div 53) % 9) + 1]
\* rng.normal(0.0, sigma)
Normal(r, sigma) == (sigma * ZOf(r)) \div 1000

SeedRngIgnoringSeed(rng_seed, entropy) == (entropy * 1103 + 977) % RngMod
\* default_rng(rng_seed): seeded by rng_seed, by OS entropy when it is None
SeedRng(rng_seed, entropy) ==
    IF rng_seed = None THEN (entropy * 1103 + 977) % RngMod
    ELSE (rng_seed * 1103 + 977) % RngMod

\* ------------------------------------------------------ EngineStateModel

ResetReseeding(s) ==
    [s EXCEPT !.time_s = 0, !.throttle = 0, !.rpm = s.idle_rpm,
              !.engine_temp = s.ambient_temp_c + 650,
              !.fuel_flow = 2600, !.vibration = 100,
              !.rng = SeedRng(s.rng_seed, 0)]
Reset(s) ==
    [s EXCEPT !.time_s = 0, !.throttle = 0, !.rpm = s.idle_rpm,
              !.engine_temp = s.ambient_temp_c + 650,
              !.fuel_flow = 2600, !.vibration = 100]

\* __post_init__: the generator is seeded, then reset() sets the state
Construct(cal, rng_seed, entropy) ==
    Reset([ambient_temp_c |-> cal.ambient_temp_c, idle_rpm |-> cal.idle_rpm,
           max_rpm |-> cal.max_rpm, rng_seed |-> rng_seed,
           rng |-> SeedRng(rng_seed, entropy),
           time_s |-> 0, throttle |-> 0, rpm |-> 0, engine_temp |-> 0,
           fuel_flow |-> 0, vibration |-> 0])

\* _anomaly_score: the score, and the generator after its jitter draw
AnomalyScore(s) ==
    LET expected_temp == s.ambient_temp_c + 900 + (3200 * s.rpm) \div s.max_rpm
                         + (1800 * s.throttle) \div 100
        expected_vib  == 80 + (220 * s.rpm) \div s.max_rpm
        expected_fuel == 2200 + (45 * s.rpm) \div 100 + 90 * s.throttle
        temp_dev == (Abs(s.engine_temp - expected_temp) * 100) \div 35
        vib_dev  == Max(0, s.vibration - expected_vib) * 10
        fuel_dev == (Abs(s.fuel_flow - expected_fuel) * 100) \div 140
        score    == 1000 + temp_dev + vib_dev + fuel_dev \div 2 + Normal(s.rng, 40000)
    IN  [score |-> Max(0, score), rng |-> NextRng(s.rng)]

\* snapshot(): the returned row, and the instance afterwards
Snapshot(s) ==
    LET a == AnomalyScore(s)
    IN  [row |-> [time |-> s.time_s, throttle |-> s.throttle, rpm |-> s.rpm,
                  engine_temp |-> s.engine_temp, fuel_flow |-> s.fuel_flow,
                  vibration |-> s.vibration, anomaly_score |-> a.score],
         state |-> [s EXCEPT !.rng = a.rng]]

\* the body of step after the dt check
StepBody(s, throttle, dt) ==
    LET thr  == _clamp(throttle, 0, 100)
        r0   == s.rng
        r1   == NextRng(r0)
        r2   == NextRng(r1)
        r3   == NextRng(r2)
        r4   == NextRng(r3)
        rpm_target == s.idle_rpm + (thr * (s.max_rpm - s.idle_rpm)) \div 100
        rpm  == _clamp(s.rpm + ((rpm_target - s.rpm) * Alpha(dt, 18)) \div 10000
                         + Normal(r0, 20 * SqrtDt(dt)),
                       (s.idle_rpm * 85) \div 100, (s.max_rpm * 102) \div 100)
        temp_target == s.ambient_temp_c + 900 + (3200 * rpm) \div s.max_rpm
                       + (1800 * thr) \div 100
        temp == _clamp(s.engine_temp
                         + ((temp_target - s.engine_temp) * Alpha(dt, 90)) \div 10000
                         + Normal(r1, 8 * SqrtDt(dt)),
                       s.ambient_temp_c, 9800)
        fuel_target == 2200 + (45 * rpm) \div 100 + 90 * thr
        fuel == _clamp(s.fuel_flow
                         + ((fuel_target - s.fuel_flow) * Alpha(dt, 22)) \div 10000
                         + Normal(r2, 60 * SqrtDt(dt)),
                       1200, 26000)
        vib_target == 80 + (220 * rpm) \div s.max_rpm
                      + (450 * Abs(rpm_target - rpm)) \div s.max_rpm
        vib  == _clamp(s.vibration
                         + ((vib_target - s.vibration) * Alpha(dt, 35)) \div 10000
                         + Normal(r3, 10 * SqrtDt(dt)),
                       30, 2500)
        moved == [s EXCEPT !.time_s = s.time_s + dt, !.throttle = thr, !.rpm = rpm,
                           !.engine_temp = temp, !.fuel_flow = fuel,
                           !.vibration = vib, !.rng = r4]
        snap == Snapshot(moved)
    IN  [err |-> "none", state |-> snap.state, rows |-> << snap.row >>]

StepLateCheck(s, throttle, dt) ==
    IF dt <= 0
    THEN [err |-> "InvalidArgument",
          state |-> [s EXCEPT !.time_s = s.time_s + dt,
                              !.throttle = _clamp(throttle, 0, 100)],
          rows |-> << >>]
    ELSE StepBody(s, throttle, dt)
\* step(throttle, dt)
Step(s, throttle, dt) ==
    IF dt <= 0
    THEN [err |-> "InvalidArgument", state |-> s, rows |-> << >>]
    ELSE StepBody(s, throttle, dt)

RECURSIVE RunProfileFrom(_, _, _, _)
RunProfileFrom(s, throttles, dt, rows) ==
    IF throttles = << >>
    THEN [err |-> "none", state |-> s, rows |-> rows]
    ELSE LET r == Step(s, Head(throttles), dt)
         IN  IF r.err # "none"
             THEN [err |-> r.err, state |-> r.state, rows |-> << >>]
             ELSE RunProfileFrom(r.state, Tail(throttles), dt, rows \o r.rows)

Reverse(q) == [i \in 1 .. Len(q) |-> q[Len(q) + 1 - i]]
RunProfileReversed(s, throttles, dt) == RunProfileFrom(s, Reverse(throttles), dt, << >>)
\* run_profile(throttles, dt): the rows of step over each throttle, in order
RunProfile(s, throttles, dt) == RunProfileFrom(s, throttles, dt, << >>)

\* ----------------------------------------------------------------- state

VARIABLES
    sims,    \* the simulator instances
    last,    \* per instance: the last call, the instance before it, what it returned
    nops,    \* per instance: calls made so far
    pc,                 \* app.py: the part of the script to run next
    upload,             \* app.py: uploaded_file
    anomaly_threshold,  \* app.py: the sidebar slider
    data,               \* app.py: data, before _build_live_features
    error,              \* app.py: what st.sidebar.error reported
    source_label,       \* app.py: source_label
    features,           \* app.py: data, after _build_live_features
    interpretation      \* app.py: interpretation, as its list of findings

engineVars == << sims, last, nops >>
appVars == << pc, upload, anomaly_threshold, data, error, source_label,
              features, interpretation >>
vars == << sims, last, nops, pc, upload, anomaly_threshold, data, error,
           source_label, features, interpretation >>

Instances == {1, 2}

\* prior: the call before the last one (its error, the instance before it)
NoCall(s) == [op |-> "new", throttles |-> << >>, dt |-> 0, before |-> s,
              err |-> "none", rows |-> << >>,
              prior |-> [op |-> "new", err |-> "none", before |-> s]]

Record(i, op, throttles, dt, res) ==
    /\ last' = [last EXCEPT ![i] = [op |-> op, throttles |-> throttles, dt |-> dt,
                                    before |-> sims[i], err |-> res.err,
                                    rows |-> res.rows,
                                    prior |-> [op |-> last[i].op,
                                               err |-> last[i].err,
                                               before |-> last[i].before]]]
    /\ sims' = [sims EXCEPT ![i] = res.state]
    /\ nops' = [nops EXCEPT ![i] = @ + 1]
    /\ UNCHANGED appVars

\* ---------------------------------------------------------------- actions

DoStep(i) ==
    /\ nops[i] < MaxOps
    /\ \E throttle \in ThrottleValues, dt \in GoodDt :
          Record(i, "step", << throttle >>, dt, Step(sims[i], throttle, dt))

DoStepBadDt(i) ==
    /\ nops[i] < MaxOps
    /\ \E throttle \in ThrottleValues, dt \in BadDt :
          Record(i, "step", << throttle >>, dt, Step(sims[i], throttle, dt))

DoSnapshot(i) ==
    /\ nops[i] < MaxOps
    /\ LET r == Snapshot(sims[i])
       IN  Record(i, "snapshot", << >>, 0,
                  [err |-> "none", state |-> r.state, rows |-> << r.row >>])

DoReset(i) ==
    /\ nops[i] < MaxOps
    /\ Record(i, "reset", << >>, 0,
              [err |-> "none", state |-> Reset(sims[i]), rows |-> << >>])

Fresh == [ambient_temp_c |-> 220, idle_rpm |-> 1100, max_rpm |-> 15500]

SeedChoices == Seeds \cup {None}

NoUpload == [kind |-> "none", cols |-> {}, rows |-> << >>]
NoData == [present |-> FALSE, cols |-> {}, rows |-> << >>]
NoFeatures == [built |-> FALSE, rows |-> << >>]

\* the script has not started
AppIdle ==
    /\ pc = "source"
    /\ upload = NoUpload
    /\ anomaly_threshold = 3000
    /\ data = NoData
    /\ error = "none"
    /\ source_label = "ENGINE MODEL"
    /\ features = NoFeatures
    /\ interpretation = << >>

\* one instance under test; the second stays as constructed
InitEngine ==
    /\ AppIdle
    /\ \E cal \in Calibrations, rng_seed \in SeedChoices, entropy \in Seeds :
          sims = [i \in Instances |->
                    IF i = 1 THEN Construct(cal, rng_seed, entropy)
                    ELSE Construct(Fresh, 0, 0)]
    /\ last = [i \in Instances |-> NoCall(sims[i])]
    /\ nops = [i \in Instances |-> 0]

NextEngine == DoStep(1) \/ DoStepBadDt(1) \/ DoSnapshot(1) \/ DoReset(1)

SpecEngine == InitEngine /\ [][NextEngine]_vars

\* ------------------------------------------- run_profile, one instance

DoWarmStep(i) ==
    /\ nops[i] = 0
    /\ \E throttle \in ThrottleValues, dt \in GoodDt :
          Record(i, "step", << throttle >>, dt, Step(sims[i], throttle, dt))

DoRunProfile(i) ==
    /\ last[i].op # "run_profile"
    /\ \E throttles \in Profiles, dt \in GoodDt \cup BadDt :
          Record(i, "run_profile", throttles, dt, RunProfile(sims[i], throttles, dt))

NextProfile == DoWarmStep(1) \/ DoRunProfile(1)

SpecProfile == InitEngine /\ [][NextProfile]_vars

\* ------------------------------- the same profile run on two instances

InitDet ==
    /\ AppIdle
    /\ \E cal1 \in Calibrations, cal2 \in Calibrations,
          seed1 \in SeedChoices, seed2 \in SeedChoices,
          entropy1 \in Seeds, entropy2 \in Seeds :
          sims = [i \in Instances |->
                    IF i = 1 THEN Construct(cal1, seed1, entropy1)
                    ELSE Construct(cal2, seed2, entropy2)]
    /\ last = [i \in Instances |-> NoCall(sims[i])]
    /\ nops = [i \in Instances |-> 0]

\* the second instance is driven by the profile and dt the first was given
DoReplay(i, j) ==
    /\ last[i].op = "run_profile"
    /\ last[j].op # "run_profile"
    /\ Record(j, "run_profile", last[i].throttles, last[i].dt,
              RunProfile(sims[j], last[i].throttles, last[i].dt))

NextDet == DoRunProfile(1) \/ DoReplay(1, 2)

SpecDet == InitDet /\ [][NextDet]_vars

\* =================================================================== app.py
\* Further fixed-point units of the feature pipeline:
\*   rpm_rate_of_change     rpm per second
\*   egt_rolling_mean       thousandths of a degree
\*   vibration_rolling_std  ten-thousandths
\*   efficiency             hundredths of a percent (10000 is 100.0)
\*   degradation_trend      ten-thousandths of a percent
\*   anomaly_threshold      thousandths

\* np.nan, and the infinities a division by zero gives
NaN == 0 - 999999999
Inf == 999999999
NegInf == 0 - 999999998
IsFinite(x) == x \notin {NaN, Inf, NegInf}

RECURSIVE SqrtSearch(_, _, _)
SqrtSearch(n, lo, hi) ==
    IF lo >= hi THEN lo
    ELSE LET mid == (lo + hi + 1) \div 2
         IN  IF mid * mid <= n THEN SqrtSearch(n, mid, hi)
             ELSE SqrtSearch(n, lo, mid - 1)
ISqrt(n) == SqrtSearch(n, 0, Min(n, 46340))

RECURSIVE SumOver(_, _)
SumOver(x, K) ==
    IF K = {} THEN 0
    ELSE LET k == CHOOSE j \in K : TRUE IN x[k] + SumOver(x, K \ {k})

RECURSIVE Series(_, _)
\* the sequence f[1], ..., f[n]
Series(f, n) == IF n = 0 THEN << >> ELSE Append(Series(f, n - 1), f[n])

\* Series.diff()
Diff(x) ==
    Series([i \in 1 .. Len(x) |->
        IF i = 1 \/ x[i] = NaN \/ x[i - 1] = NaN THEN NaN
        ELSE IF IsFinite(x[i]) /\ IsFinite(x[i - 1]) THEN x[i] - x[i - 1]
        ELSE NaN], Len(x))

FillNa(x, v) == Series([i \in 1 .. Len(x) |-> IF x[i] = NaN THEN v ELSE x[i]], Len(x))

\* the observations of the trailing window of w samples ending at i
Observed(x, i, w) == { k \in Max(1, i - w + 1) .. i : x[k] # NaN }

\* Series.rolling(w, min_periods).mean(), in 1/scale of the unit of x
RollingMean(x, w, min_periods, scale) ==
    Series([i \in 1 .. Len(x) |->
        LET K == Observed(x, i, w)
        IN  IF Cardinality(K) < min_periods THEN NaN
            ELSE IF \E k \in K : ~IsFinite(x[k]) THEN NaN
            ELSE (SumOver(x, K) * scale) \div Cardinality(K)], Len(x))

\* the sample variance (ddof = 1) of the observations K of x
Variance(x, K) ==
    LET n    == Cardinality(K)
        mean == SumOver(x, K) \div n
        sq   == [k \in K |-> (x[k] - mean) * (x[k] - mean)]
    IN  SumOver(sq, K) \div (n - 1)

\* Series.rolling(w, min_periods).std(), in 1/scale of the unit of x
RollingStd(x, w, min_periods, scale) ==
    Series([i \in 1 .. Len(x) |->
        LET K == Observed(x, i, w)
        IN  IF Cardinality(K) < Max(min_periods, 2) THEN NaN
            ELSE IF \E k \in K : ~IsFinite(x[k]) THEN NaN
            ELSE ISqrt(Variance(x, K) * scale * scale)], Len(x))

\* a / b in floating point
FloatDiv(a, b) ==
    IF a = NaN \/ b = NaN THEN NaN
    ELSE IF b = 0 THEN (IF a = 0 THEN NaN ELSE IF a > 0 THEN Inf ELSE NegInf)
    ELSE IF ~IsFinite(a) THEN a
    ELSE a \div b

Clip(v, low, high) == Max(low, Min(high, v))

Column(rows, f) == Series([i \in 1 .. Len(rows) |-> rows[i][f]], Len(rows))
SetColumn(rows, f, x) == Series([i \in 1 .. Len(rows) |-> [rows[i] EXCEPT ![f] = x[i]]], Len(rows))
MinOf(x) == CHOOSE v \in { x[i] : i \in 1 .. Len(x) } : \A i \in 1 .. Len(x) : v <= x[i]
MaxOf(x) == CHOOSE v \in { x[i] : i \in 1 .. Len(x) } : \A i \in 1 .. Len(x) : v >= x[i]

\* the orders sort_values("time") can return: ascending by time; the default
\* kind, quicksort, fixes no order among rows of equal time
SortedOrders(rows) ==
    { p \in Permutations(1 .. Len(rows)) :
        \A i, j \in 1 .. Len(rows) : i < j => rows[p[i]].time <= rows[p[j]].time }
Reorder(rows, p) == Series([i \in 1 .. Len(rows) |-> rows[p[i]]], Len(rows))

\* Binary floating point with round-to-nearest-even, on a short significand:
\* FloatRange is 2^14, every whole number below it is a value, and a larger
\* magnitude keeps its 14 leading bits (float64 keeps 53).
FloatRange == 128 * 128

\* the element of a set of one: The({e : x \in {v}}) is e with x the value v
The(S) == CHOOSE x \in S : TRUE

RECURSIVE Ulp(_, _)
\* the spacing of the values around q
Ulp(q, u) == IF q \div u < FloatRange THEN u ELSE Ulp(q, 2 * u)

\* the multiple of u nearest to n / d, ties to the even significand
Nearest(n, d, u) ==
    LET m   == n \div (d * u)
        rem == n - m * d * u
        up  == 2 * rem > d * u \/ (2 * rem = d * u /\ m % 2 = 1)
    IN  (IF up THEN m + 1 ELSE m) * u
\* the value nearest to n / d (n >= 0, d > 0)
RoundDiv(n, d) == The({ Nearest(n, d, u) : u \in { Ulp(n \div d, 1) } })
FloatMul(a, b) == RoundDiv(a * b, 1)
FloatAdd(a, b) == RoundDiv(a + b, 1)

\* line 17 for one row: the product, then the quotient, then the sum, each
\* one rounded
Rescale(offset, span) ==
    The({ FloatAdd(1100, quotient) :
            quotient \in { RoundDiv(product, span) :
                             product \in { FloatMul(offset, 15500 - 1100) } } })

\* lines 14-17
RpmOverRange(egt, egt_min, egt_max) ==
    IF egt_max = egt_min THEN Series([i \in 1 .. Len(egt) |-> 1100], Len(egt))
    ELSE Series([i \in 1 .. Len(egt) |->
                    Rescale(egt[i] - egt_min, egt_max - egt_min)], Len(egt))

\* lines 11-17: the rpm column when the input has none
SynthRpm(rows) ==
    IF rows = << >> THEN << >>
    ELSE The({ The({ RpmOverRange(egt, egt_min, egt_max) :
                       egt_min \in { MinOf(egt) }, egt_max \in { MaxOf(egt) } }) :
               egt \in { Column(rows, "engine_temp") } })

\* lines 19-23
SynthVibration(rows, cols) ==
    Series([i \in 1 .. Len(rows) |->
        IF "anomaly_score" \in cols
        THEN 80 + (Clip(rows[i].anomaly_score, 0, 10000) * 3) \div 100
        ELSE 100], Len(rows))

\* line 26
SynthFuelFlow(rows) == Series([i \in 1 .. Len(rows) |-> 2200 + (45 * rows[i].rpm) \div 100], Len(rows))

ReplaceNothing(x) == x
\* .replace(0, np.nan)
ReplaceZero(x) == Series([i \in 1 .. Len(x) |-> IF x[i] = 0 THEN NaN ELSE x[i]], Len(x))

\* lines 28-29: rpm per second
RpmRateOfChange(rows) ==
    LET dt   == ReplaceZero(Diff(Column(rows, "time")))
        drpm == Diff(Column(rows, "rpm"))
    IN  FillNa(Series([i \in 1 .. Len(rows) |->
                   FloatDiv(IF drpm[i] = NaN THEN NaN ELSE drpm[i] * 4, dt[i])], Len(rows)), 0)

\* lines 33-38
SynthEfficiency(rows) ==
    Series([i \in 1 .. Len(rows) |->
        LET rpm_norm == Clip(((rows[i].rpm - 1100) * 10000) \div (15500 - 1100), 0, 10000)
            egt_norm == Clip(((rows[i].engine_temp - 1500) * 10000) \div 7500, 0, 10000)
            vib_norm == Clip(((rows[i].vibration - 50) * 10000) \div 1200, 0, 10000)
        IN  Clip((45 * rpm_norm + 35 * (10000 - egt_norm) + 20 * (10000 - vib_norm))
                   \div 100, 0, 10000)], Len(rows))

\* line 40
DegradationTrend(rows) ==
    FillNa(RollingMean(Diff(RollingMean(Column(rows, "efficiency"), 20, 2, 100)),
                       8, 1, 1), 0)

\* |num| / (std + 1e-6) in thousandths; num and std in the same unit
ZHuge == 10000 * 10000
ZScore(num, std) ==
    IF ~IsFinite(num) THEN ZHuge
    ELSE IF num = 0 THEN 0
    ELSE IF std = 0 THEN ZHuge
    ELSE Min(ZHuge, (Abs(num) * 1000) \div std)

\* lines 43-48
SynthAnomalyScore(rows) ==
    LET egt     == Column(rows, "engine_temp")
        vib     == Column(rows, "vibration")
        roc     == Column(rows, "rpm_rate_of_change")
        egt_std == FillNa(RollingStd(egt, 15, 3, 10), 100)
        vib_avg == RollingMean(vib, 15, 3, 100)
        vib_std == FillNa(RollingStd(vib, 15, 3, 10), 100)
        roc_std == FillNa(RollingStd(roc, 20, 3, 1), 1)
    IN  Series([i \in 1 .. Len(rows) |->
            LET temp_z == ZScore((egt[i] * 100 - rows[i].egt_rolling_mean) \div 10,
                                 egt_std[i])
                vib_z  == ZScore(IF vib_avg[i] = NaN THEN 0
                                 ELSE (vib[i] * 100 - vib_avg[i]) \div 10, vib_std[i])
                roc_z  == ZScore(roc[i], roc_std[i])
            IN  Max(0, 1000 + (7 * temp_z) \div 10 + (7 * vib_z) \div 10
                              + (4 * roc_z) \div 10)], Len(rows))

RiskLevelWarningFirst(row, threshold) ==
    IF \/ row.anomaly_score >= threshold
       \/ row.degradation_trend < 0 - 500
       \/ row.vibration_rolling_std > 400
    THEN "Warning"
    ELSE IF \/ row.anomaly_score >= (threshold * 17) \div 10
            \/ row.degradation_trend < 0 - 2000
            \/ row.engine_temp * 100 - row.egt_rolling_mean > 45000
    THEN "Critical"
    ELSE "Normal"
\* lines 50-60
RiskLevel(row, threshold) ==
    LET critical_mask == \/ row.anomaly_score >= (threshold * 17) \div 10
                         \/ row.degradation_trend < 0 - 2000
                         \/ row.engine_temp * 100 - row.egt_rolling_mean > 45000
        warning_mask  == \/ row.anomaly_score >= threshold
                         \/ row.degradation_trend < 0 - 500
                         \/ row.vibration_rolling_std > 400
    IN  IF critical_mask THEN "Critical"
        ELSE IF warning_mask THEN "Warning" ELSE "Normal"

\* lines 19-60: telemetry from the vibration column on, t1 having its rpm
FeaturesAfterRpm(t1, cols, threshold) ==
    LET t2 == IF "vibration" \in cols THEN t1
              ELSE SetColumn(t1, "vibration", SynthVibration(t1, cols))
        t3 == IF "fuel_flow" \in cols THEN t2
              ELSE SetColumn(t2, "fuel_flow", SynthFuelFlow(t2))
        t4 == SetColumn(t3, "rpm_rate_of_change", RpmRateOfChange(t3))
        t5 == SetColumn(t4, "egt_rolling_mean",
                        RollingMean(Column(t4, "engine_temp"), 15, 1, 100))
        t6 == SetColumn(t5, "vibration_rolling_std",
                        FillNa(RollingStd(Column(t5, "vibration"), 15, 2, 10), 0))
        t7 == IF "efficiency" \in cols THEN t6
              ELSE SetColumn(t6, "efficiency", SynthEfficiency(t6))
        t8 == SetColumn(t7, "degradation_trend", DegradationTrend(t7))
        t9 == IF "anomaly_score" \in cols THEN t8
              ELSE SetColumn(t8, "anomaly_score", SynthAnomalyScore(t8))
    IN  Series([i \in 1 .. Len(t9) |->
            [t9[i] EXCEPT !.risk_level = RiskLevel(t9[i], threshold)]], Len(t9))

\* _build_live_features after the sort: telemetry is the sorted frame
BuildLiveFeatures(telemetry, cols, threshold) ==
    FeaturesAfterRpm(IF "rpm" \in cols THEN telemetry
                     ELSE SetColumn(telemetry, "rpm", SynthRpm(telemetry)),
                     cols, threshold)

SystemInterpretationAlwaysCritical(latest) ==
    LET f1 == IF latest.engine_temp * 100 - latest.egt_rolling_mean > 25000
              THEN << "Thermal drift detected" >> ELSE << >>
        f2 == IF latest.vibration_rolling_std > 300
              THEN Append(f1, "Abnormal vibration growth") ELSE f1
        f3 == IF latest.degradation_trend < 0 - 500
              THEN Append(f2, "Efficiency degradation trend detected") ELSE f2
        f4 == IF latest.risk_level = "Critical"
              THEN Append(f3, "Critical anomaly score elevation") ELSE f3
    IN  IF f4 = << >>
        THEN << "Engine telemetry stable and within expected envelope" >> ELSE f4
\* _system_interpretation: the findings, in order
SystemInterpretation(latest) ==
    LET f1 == IF latest.engine_temp * 100 - latest.egt_rolling_mean > 25000
              THEN << "Thermal drift detected" >> ELSE << >>
        f2 == IF latest.vibration_rolling_std > 300
              THEN Append(f1, "Abnormal vibration growth") ELSE f1
        f3 == IF latest.degradation_trend < 0 - 500
              THEN Append(f2, "Efficiency degradation trend detected") ELSE f2
        f4 == IF latest.risk_level = "Critical" /\ f3 = << >>
              THEN Append(f3, "Critical anomaly score elevation") ELSE f3
    IN  IF f4 = << >>
        THEN << "Engine telemetry stable and within expected envelope" >> ELSE f4

\* ------------------------------------------------------- the app's inputs

\* rows of an uploaded or simulated table before _build_live_features
MaxRows == 3
\* samples of the simulated profile
NumPoints == 3

\* a cell of the CSV that is not a number
NonNumeric == 0 - 999999997

BlankRow == [src |-> 0, time |-> NaN, throttle |-> NaN, engine_temp |-> NaN,
             rpm |-> NaN, vibration |-> NaN, fuel_flow |-> NaN,
             efficiency |-> NaN, anomaly_score |-> NaN,
             rpm_rate_of_change |-> NaN, egt_rolling_mean |-> NaN,
             vibration_rolling_std |-> NaN, degradation_trend |-> NaN,
             risk_level |-> "none"]

CsvRow(time, engine_temp, rpm, vibration, fuel_flow, efficiency, anomaly_score) ==
    [time |-> time, engine_temp |-> engine_temp, rpm |-> rpm,
     vibration |-> vibration, fuel_flow |-> fuel_flow,
     efficiency |-> efficiency, anomaly_score |-> anomaly_score]

\* the lines a CSV is made of
CsvRows ==
    { CsvRow(0, 5000, 3000, 100, 3550, 8000, 1000),
      CsvRow(4, 5000, 3000, 100, 3550, 8000, 1000),
      CsvRow(4, 5700, 5000, 150, 4450, 7970, 3500),
      CsvRow(8, 6000, 9000, 200, 6250, 5000, 7000),
      CsvRow(NonNumeric, 5000, 3000, 100, 3550, 8000, 1000),
      CsvRow(12, NonNumeric, 3000, 100, 3550, 8000, 1000) }

\* the (normalized) header of a CSV
CsvHeaders ==
    { {"engine_temp"},
      {"time"},
      {"time", "engine_temp"},
      {"time", "engine_temp", "rpm"},
      {"time", "engine_temp", "anomaly_score"},
      {"time", "engine_temp", "vibration", "efficiency"},
      {"time", "engine_temp", "rpm", "vibration", "fuel_flow", "efficiency",
       "anomaly_score"} }

OptionalNumericCols == {"rpm", "vibration", "fuel_flow", "efficiency", "anomaly_score"}

\* the cells under the header: a column that is not in the file has no cells
Cells(cols, row) ==
    [f \in DOMAIN row |-> IF f \in cols THEN row[f] ELSE NaN]

Uploads ==
    { NoUpload, [kind |-> "unreadable", cols |-> {}, rows |-> << >>] }
    \cup { [kind |-> "csv", cols |-> cols,
            rows |-> [i \in 1 .. Len(q) |-> Cells(cols, q[i])]] :
           cols \in CsvHeaders, q \in SeqsUpTo(CsvRows, MaxRows) }

Thresholds == {2000, 3000}
SynthThrottles == {10, 95}
SynthProfiles == { q \in SeqsUpTo(SynthThrottles, NumPoints) : Len(q) = NumPoints }

\* pd.to_numeric(errors="coerce")
ToNumeric(v) == IF v = NonNumeric THEN NaN ELSE v

RECURSIVE DropNa(_)
\* dropna(subset=["time", "engine_temp"])
DropNa(rows) ==
    IF rows = << >> THEN << >>
    ELSE IF Head(rows).time = NaN \/ Head(rows).engine_temp = NaN
         THEN DropNa(Tail(rows))
         ELSE << Head(rows) >> \o DropNa(Tail(rows))

\* lines 225-261: what the upload leaves in data, error and source_label
LoadUpload(up) ==
    IF up.kind = "none"
    THEN [data |-> NoData, error |-> "none", source_label |-> "ENGINE MODEL"]
    ELSE IF up.kind = "unreadable"
    THEN [data |-> NoData, error |-> "CouldNotRead", source_label |-> "ENGINE MODEL"]
    ELSE IF "engine_temp" \notin up.cols
    THEN [data |-> NoData, error |-> "MissingColumn", source_label |-> "ENGINE MODEL"]
    ELSE LET selected ==
                 [i \in 1 .. Len(up.rows) |->
                     [f \in DOMAIN BlankRow |->
                         IF f = "src" THEN i
                         ELSE IF f = "engine_temp" THEN ToNumeric(up.rows[i].engine_temp)
                         ELSE IF f = "time"
                              THEN (IF "time" \in up.cols
                                    THEN ToNumeric(up.rows[i].time)
                                    ELSE 4 * (i - 1))
                         ELSE IF f \in OptionalNumericCols /\ f \in up.cols
                              THEN ToNumeric(up.rows[i][f])
                         ELSE BlankRow[f]]]
             kept == DropNa(selected)
             cols == {"engine_temp", "time"} \cup (up.cols \cap OptionalNumericCols)
         IN  IF kept = << >>
             THEN [data |-> [present |-> TRUE, cols |-> cols, rows |-> kept],
                   error |-> "EmptySeries", source_label |-> "ENGINE MODEL"]
             ELSE [data |-> [present |-> TRUE, cols |-> cols, rows |-> kept],
                   error |-> "none", source_label |-> "UPLOADED CSV"]

\* lines 263-275: the simulated table for a clipped throttle profile
Synthetic(throttle_profile) ==
    LET model == Construct(Fresh, 42, 0)
        rows  == RunProfile(model, throttle_profile, 2).rows
    IN  [present |-> TRUE,
         cols |-> {"time", "throttle", "rpm", "engine_temp", "fuel_flow",
                   "vibration", "anomaly_score"},
         rows |-> [i \in 1 .. Len(rows) |->
                     [f \in DOMAIN BlankRow |->
                         IF f = "src" THEN i
                         ELSE IF f \in DOMAIN rows[i] THEN rows[i][f]
                         ELSE BlankRow[f]]]]

\* --------------------------------------------------- the app's actions

\* lines 222-275: the upload, or else the simulated profile
DataSource ==
    /\ pc = "source"
    /\ \E up \in Uploads, threshold \in Thresholds :
          LET loaded == LoadUpload(up)
          IN  /\ upload' = up
              /\ anomaly_threshold' = threshold
              /\ error' = loaded.error
              /\ source_label' = loaded.source_label
              /\ IF loaded.data.present
                 THEN data' = loaded.data
                 ELSE \E throttle_profile \in SynthProfiles :
                         data' = Synthetic(throttle_profile)
    /\ pc' = "features"
    /\ UNCHANGED << features, interpretation >>
    /\ UNCHANGED engineVars

\* line 277: _build_live_features(data, anomaly_threshold)
BuildFeatures ==
    /\ pc = "features"
    /\ \E p \in SortedOrders(data.rows) :
          features' = [built |-> TRUE,
                       rows |-> BuildLiveFeatures(Reorder(data.rows, p), data.cols,
                                                  anomaly_threshold)]
    /\ pc' = "interpret"
    /\ UNCHANGED << upload, anomaly_threshold, data, error, source_label, interpretation >>
    /\ UNCHANGED engineVars

\* lines 293-294: data.iloc[-1] raises IndexError on an empty table
Interpret ==
    /\ pc = "interpret"
    /\ IF features.rows = << >>
       THEN pc' = "crashed" /\ UNCHANGED interpretation
       ELSE /\ interpretation' = SystemInterpretation(features.rows[Len(features.rows)])
            /\ pc' = "done"
    /\ UNCHANGED << upload, anomaly_threshold, data, error, source_label, features >>
    /\ UNCHANGED engineVars

InitApp ==
    /\ AppIdle
    /\ sims = [i \in Instances |-> Construct(Fresh, 0, 0)]
    /\ last = [i \in Instances |-> NoCall(sims[i])]
    /\ nops = [i \in Instances |-> 0]

NextApp == DataSource \/ BuildFeatures \/ Interpret

SpecApp == InitApp /\ [][NextApp]_vars

\* ================================================================ claims

Physical(s) == << s.time_s, s.throttle, s.rpm, s.engine_temp, s.fuel_flow, s.vibration >>
Calibration(s) == << s.ambient_temp_c, s.idle_rpm, s.max_rpm >>

SampleInBounds(s, row) ==
    /\ (s.idle_rpm * 85) \div 100 <= row.rpm
    /\ row.rpm <= (s.max_rpm * 102) \div 100
    /\ s.ambient_temp_c <= row.engine_temp
    /\ row.engine_temp <= 9800
    /\ 1200 <= row.fuel_flow
    /\ row.fuel_flow <= 26000
    /\ 30 <= row.vibration
    /\ row.vibration <= 2500
    /\ row.anomaly_score >= 0

\* C1: every sample the simulator returns, after any sequence of steps with
\* any throttle, any dt > 0 and any noise, has rpm in
\* [idle_rpm*0.85, max_rpm*1.02], engine_temp in [ambient_temp_c, 980],
\* fuel_flow in [120, 2600], vibration in [0.03, 2.5] and anomaly_score >= 0.
C1_ClampInvariants ==
    \A k \in 1 .. Len(last[1].rows) : SampleInBounds(sims[1], last[1].rows[k])

\* a third step in a row returned a sample with rpm held at a clamp
C1_Witness ==
    /\ last[1].op = "step"
    /\ last[1].err = "none"
    /\ nops[1] = 3
    /\ last[1].prior.op = "step"
    /\ last[1].prior.err = "none"
    /\ last[1].rows[1].rpm \in { (sims[1].idle_rpm * 85) \div 100,
                                 (sims[1].max_rpm * 102) \div 100 }

\* C2: step with dt <= 0 fails with InvalidArgument before any effect: the
\* instance (time_s, throttle, rpm, engine_temp, fuel_flow, vibration and
\* the random source) is as before the call and nothing is returned; and a
\* valid step right after a failed one returns what it would have returned
\* from the state before the failed call.
C2_BadDtFailsWithoutEffect ==
    /\ (last[1].op = "step" /\ last[1].dt <= 0) =>
          /\ last[1].err = "InvalidArgument"
          /\ sims[1] = last[1].before
          /\ last[1].rows = << >>
    /\ (last[1].op = "step" /\ last[1].dt > 0
          /\ last[1].prior.op = "step" /\ last[1].prior.err = "InvalidArgument") =>
          LET r == Step(last[1].prior.before, last[1].throttles[1], last[1].dt)
          IN  last[1].rows = r.rows /\ sims[1] = r.state

\* a valid step, then a failed one, then a valid one
C2_Witness ==
    /\ nops[1] = 3
    /\ last[1].op = "step"
    /\ last[1].dt > 0
    /\ last[1].prior.op = "step"
    /\ last[1].prior.err = "InvalidArgument"
    /\ last[1].prior.before.time_s > 0

\* C7: reset() after any calls restores the resting state of a freshly
\* constructed simulator (time_s 0, throttle 0, rpm idle_rpm, engine_temp
\* ambient_temp_c + 65, fuel_flow 260, vibration 0.10) and leaves the
\* calibration constants and the random source as they were.
C7_ResetRestoresRestingState ==
    last[1].op = "reset" =>
        /\ sims[1].time_s = 0
        /\ sims[1].throttle = 0
        /\ sims[1].rpm = sims[1].idle_rpm
        /\ sims[1].engine_temp = sims[1].ambient_temp_c + 650
        /\ sims[1].fuel_flow = 2600
        /\ sims[1].vibration = 100
        /\ \E cal \in Calibrations :
              Physical(sims[1]) = Physical(Construct(cal, sims[1].rng_seed, 0))
        /\ Calibration(sims[1]) = Calibration(last[1].before)
        /\ sims[1].rng_seed = last[1].before.rng_seed
        /\ sims[1].rng = last[1].before.rng

\* reset after a step moved the state and the random source
C7_Witness ==
    /\ last[1].op = "reset"
    /\ last[1].before.time_s > 0
    /\ last[1].before.rpm # last[1].before.idle_rpm
    /\ \A e \in Seeds : last[1].before.rng # SeedRng(last[1].before.rng_seed, e)

RECURSIVE Advance(_, _)
Advance(r, n) == IF n = 0 THEN r ELSE Advance(NextRng(r), n - 1)

\* C3: two instances built with the same integer seed and the same
\* calibration constants, driven by run_profile with the same throttles and
\* the same dt, return identical rows; each step takes five draws from the
\* random source.
C3_Determinism ==
    (/\ last[1].op = "run_profile"
     /\ last[2].op = "run_profile"
     /\ last[1].throttles = last[2].throttles
     /\ last[1].dt = last[2].dt
     /\ sims[1].rng_seed # None
     /\ sims[1].rng_seed = sims[2].rng_seed
     /\ Calibration(sims[1]) = Calibration(sims[2])) =>
        /\ last[1].err = last[2].err
        /\ last[1].rows = last[2].rows
        /\ \A i \in Instances :
              sims[i].rng = Advance(last[i].before.rng, 5 * Len(last[i].rows))

\* both instances, same seed and calibration, ran a two-step profile
C3_Witness ==
    /\ last[1].op = "run_profile"
    /\ last[2].op = "run_profile"
    /\ sims[1].rng_seed # None
    /\ sims[1].rng_seed = sims[2].rng_seed
    /\ Calibration(sims[1]) = Calibration(sims[2])
    /\ Len(last[1].rows) >= 2
    /\ Len(last[2].rows) >= 2

Critical(row) ==
    \/ row.anomaly_score >= (anomaly_threshold * 17) \div 10
    \/ row.degradation_trend < 0 - 2000
    \/ row.engine_temp * 100 - row.egt_rolling_mean > 45000
Warning(row) ==
    \/ row.anomaly_score >= anomaly_threshold
    \/ row.degradation_trend < 0 - 500
    \/ row.vibration_rolling_std > 400
OutRows == 1 .. Len(features.rows)

\* C4: every row has exactly one label of Normal, Warning, Critical: Critical
\* iff anomaly_score >= 1.7*threshold or degradation_trend < -0.20 or
\* engine_temp - egt_rolling_mean > 45; Warning iff none of those holds and
\* anomaly_score >= threshold or degradation_trend < -0.05 or
\* vibration_rolling_std > 0.04; Normal otherwise.
C4_RiskCascade ==
    features.built =>
        \A i \in OutRows :
            LET row == features.rows[i]
            IN  /\ row.risk_level \in {"Normal", "Warning", "Critical"}
                /\ row.risk_level = "Critical" <=> Critical(row)
                /\ row.risk_level = "Warning" <=> (~Critical(row) /\ Warning(row))
                /\ row.risk_level = "Normal" <=> (~Critical(row) /\ ~Warning(row))

\* one table with a Normal row, a Warning row, and a Critical row that also
\* meets a Warning condition
C4_Witness ==
    /\ features.built
    /\ \E i, j, k \in OutRows :
          /\ features.rows[i].risk_level = "Normal"
          /\ features.rows[j].risk_level = "Warning"
          /\ features.rows[k].risk_level = "Critical"
          /\ Warning(features.rows[k])

\* C5 (as claimed): an upload without the engine_temp column is rejected
\* with MissingColumn, one with no row of numeric time and engine_temp with
\* EmptySeries, and after the rejection no features, risk labels or
\* interpretation are produced.
C5_RejectionStopsProcessing ==
    /\ (pc # "source" /\ upload.kind = "csv" /\ "engine_temp" \notin upload.cols)
          => error = "MissingColumn"
    /\ (pc # "source" /\ upload.kind = "csv" /\ "engine_temp" \in upload.cols
          /\ \A i \in 1 .. Len(upload.rows) :
                \/ upload.rows[i].engine_temp = NonNumeric
                \/ ("time" \in upload.cols /\ upload.rows[i].time = NonNumeric))
          => error = "EmptySeries"
    /\ error \in {"MissingColumn", "EmptySeries"}
          => (features = NoFeatures /\ interpretation = << >> /\ pc # "crashed")

Latest == features.rows[Len(features.rows)]
ThermalDrift(row) == row.engine_temp * 100 - row.egt_rolling_mean > 25000
VibrationGrowth(row) == row.vibration_rolling_std > 300
EfficiencyDecline(row) == row.degradation_trend < 0 - 500
Has(finding) == \E k \in 1 .. Len(interpretation) : interpretation[k] = finding
Before(f, g) ==
    \A k, m \in 1 .. Len(interpretation) :
        (interpretation[k] = f /\ interpretation[m] = g) => k < m

\* C8: the summary of the latest row holds, in this order, "Thermal drift
\* detected" iff engine_temp - egt_rolling_mean > 25, "Abnormal vibration
\* growth" iff vibration_rolling_std > 0.03, "Efficiency degradation trend
\* detected" iff degradation_trend < -0.05; "Critical anomaly score
\* elevation" iff none of the three holds and the row is Critical; the stable
\* finding iff none of the three holds and the row is not Critical. It is
\* never empty and holds each finding once.
C8_InterpretationFindings ==
    pc = "done" =>
        LET any == ThermalDrift(Latest) \/ VibrationGrowth(Latest)
                   \/ EfficiencyDecline(Latest)
        IN  /\ Has("Thermal drift detected") <=> ThermalDrift(Latest)
            /\ Has("Abnormal vibration growth") <=> VibrationGrowth(Latest)
            /\ Has("Efficiency degradation trend detected") <=> EfficiencyDecline(Latest)
            /\ Has("Critical anomaly score elevation")
                  <=> (~any /\ Latest.risk_level = "Critical")
            /\ Has("Engine telemetry stable and within expected envelope")
                  <=> (~any /\ Latest.risk_level # "Critical")
            /\ Before("Thermal drift detected", "Abnormal vibration growth")
            /\ Before("Thermal drift detected", "Efficiency degradation trend detected")
            /\ Before("Abnormal vibration growth", "Efficiency degradation trend detected")
            /\ interpretation # << >>
            /\ \A k, m \in 1 .. Len(interpretation) :
                  interpretation[k] = interpretation[m] => k = m
            /\ \A k \in 1 .. Len(interpretation) :
                  interpretation[k] \in
                     {"Thermal drift detected", "Abnormal vibration growth",
                      "Efficiency degradation trend detected",
                      "Critical anomaly score elevation",
                      "Engine telemetry stable and within expected envelope"}

\* a Critical latest row with all three findings, none of them the Critical one
C8_Witness ==
    /\ pc = "done"
    /\ Latest.risk_level = "Critical"
    /\ interpretation = << "Thermal drift detected", "Abnormal vibration growth",
                           "Efficiency degradation trend detected" >>

\* C9: rpm_rate_of_change is (rpm - previous rpm) / (time - previous time) when
\* that time difference is positive and 0 when it is zero, negative or
\* undefined (the first row); it is never infinite or not-a-number.
C9_RateOfChangeGuard ==
    features.built =>
        \A i \in OutRows :
            LET row == features.rows[i]
            IN  /\ IsFinite(row.rpm_rate_of_change)
                /\ i = 1 => row.rpm_rate_of_change = 0
                /\ i > 1 =>
                      LET dt == row.time - features.rows[i - 1].time
                      IN  row.rpm_rate_of_change =
                             (IF dt > 0
                              THEN ((row.rpm - features.rows[i - 1].rpm) * 4) \div dt
                              ELSE 0)

\* two rows share a time and differ in rpm, and a later row has a rate
C9_Witness ==
    /\ features.built
    /\ \E i, j \in OutRows :
          /\ i > 1
          /\ features.rows[i].time = features.rows[i - 1].time
          /\ features.rows[i].rpm # features.rows[i - 1].rpm
          /\ features.rows[i].rpm_rate_of_change = 0
          /\ j > 1
          /\ features.rows[j].time > features.rows[j - 1].time
          /\ features.rows[j].rpm_rate_of_change # 0

\* C10 (as claimed): the output is ascending by time and rows of equal time
\* keep their input order.
C10_SortIsStable ==
    features.built =>
        \A i, j \in OutRows :
            i < j =>
                /\ features.rows[i].time <= features.rows[j].time
                /\ features.rows[i].time = features.rows[j].time
                      => features.rows[i].src < features.rows[j].src

\* the table had no rpm column and came out with rows
RpmSynthesized == features.built /\ "rpm" \notin data.cols /\ features.rows # << >>
EgtMin == MinOf(Column(features.rows, "engine_temp"))
EgtMax == MaxOf(Column(features.rows, "engine_temp"))

RpmInRange ==
    \A i \in OutRows : features.rows[i].rpm >= 1100 /\ features.rows[i].rpm <= 15500
RpmAtMinimum ==
    \A i \in OutRows : features.rows[i].engine_temp = EgtMin => features.rows[i].rpm = 1100
RpmAtMaximum ==
    \A i \in OutRows :
        (EgtMax # EgtMin /\ features.rows[i].engine_temp = EgtMax)
            => features.rows[i].rpm = 15500
RpmMonotone ==
    \A i, j \in OutRows :
        features.rows[i].engine_temp > features.rows[j].engine_temp
            => features.rows[i].rpm >= features.rows[j].rpm
RpmKept ==
    \A i \in OutRows :
        \E k \in 1 .. Len(data.rows) :
            /\ data.rows[k].src = features.rows[i].src
            /\ data.rows[k].rpm = features.rows[i].rpm

\* C11 (as claimed): without an rpm column, every rpm lies in [1100, 15500],
\* the rows of least engine_temp get 1100 and those of greatest get 15500, a
\* larger engine_temp never gets a smaller rpm, and equal engine_temp
\* throughout gives 1100 throughout; with an rpm column, its values are kept.
C11_RpmIsRescaledOntoRange ==
    /\ RpmSynthesized =>
          (RpmInRange /\ RpmAtMinimum /\ RpmAtMaximum /\ RpmMonotone)
    /\ (features.built /\ "rpm" \in data.cols) => RpmKept

\* the parts of C11 that the rounding of line 17 leaves standing
C11_RescaleApartFromRounding ==
    /\ RpmSynthesized =>
          /\ RpmAtMinimum
          /\ RpmMonotone
          /\ \A i \in OutRows :
                /\ features.rows[i].rpm >= 1100
                /\ features.rows[i].rpm <= 15500 + Ulp(15500 - 1100, 1)
                /\ (EgtMax # EgtMin /\ features.rows[i].engine_temp = EgtMax)
                      => Abs(features.rows[i].rpm - 15500) <= Ulp(15500 - 1100, 1)
    /\ (features.built /\ "rpm" \in data.cols) => RpmKept

\* the last call was a valid step made right after a snapshot
StepAfterSnapshot ==
    last[1].op = "step" /\ last[1].err = "none" /\ last[1].prior.op = "snapshot"
\* the rows that step returns when the snapshot before it is left out
RowsWithoutSnapshot ==
    Step(last[1].prior.before, last[1].throttles[1], last[1].dt).rows

\* C12 (as claimed): snapshot() leaves the instance as it was, random source
\* included, and a step after it returns the rows it would have returned
\* had snapshot() not been called.
C12_SnapshotIsReadOnly ==
    /\ last[1].op = "snapshot" => sims[1] = last[1].before
    /\ StepAfterSnapshot => last[1].rows = RowsWithoutSnapshot

\* the part of C12 that holds: snapshot() leaves everything but the random
\* source alone, and reports the physical state as it is
C12_SnapshotKeepsPhysicalState ==
    last[1].op = "snapshot" =>
        /\ Physical(sims[1]) = Physical(last[1].before)
        /\ Calibration(sims[1]) = Calibration(last[1].before)
        /\ sims[1].rng_seed = last[1].before.rng_seed
        /\ sims[1].rng = NextRng(last[1].before.rng)
        /\ last[1].rows[1].rpm = sims[1].rpm
        /\ last[1].rows[1].time = sims[1].time_s

====
